---- MODULE Spec2Model ----
(***************************************************************************)
(* IntoStream (src/readable/into_stream.rs): the Stream adapter over a     *)
(* ReadableStreamDefaultReader.  The adapter's fields, its five            *)
(* operations (new, poll_next, cancel, cancel_with_reason, drop) and the   *)
(* JavaScript promises it creates are modelled; the reader is a script of  *)
(* read outcomes fixed at construction.                                    *)
(*                                                                         *)
(* Platform facts used (wasm-bindgen / ECMAScript):                        *)
(*  - a promise's reactions run as microtasks, never inside the            *)
(*    synchronous Rust call that created the promise, so a promise settles *)
(*    only between two operations of the adapter;                          *)
(*  - a Closure that Rust has dropped is invalidated: JavaScript calling   *)
(*    it afterwards gets an exception thrown.                              *)
(***************************************************************************)
EXTENDS Integers, Sequences, FiniteSets, TLC

\* ---------------------------------------------------------------- bounds
\* most non-terminal values a reader yields before done / error
MaxVals == 2
\* most poll_next calls made on one adapter
MaxPolls == 8

\* ---------------------------------------------------------------- values
Values == {"A", "B"}
Errors == {"E"}
Reasons == {"R"}

\* The settled state of the promise returned by reader.read(): fulfilled with
\* a {done, value} payload, or rejected with an error value.
Chunk(v) == [state |-> "fulfilled", done |-> FALSE, value |-> v]
Done == [state |-> "fulfilled", done |-> TRUE, value |-> "undefined"]
Rejected(e) == [state |-> "rejected", done |-> FALSE, value |-> e]

Terminals == {Done} \cup {Rejected(e) : e \in Errors}

\* What the reader will answer to the 1st, 2nd, ... read: values, then one
\* terminal outcome.
Scripts ==
    { vs \o <<t>> :
        vs \in UNION { [1..n -> {Chunk(v) : v \in Values}] : n \in 0..MaxVals },
        t \in Terminals }

\* Poll<Option<Result<JsValue, JsValue>>>
Pending == <<"Pending">>
End == <<"Ready", "None">>
Item(kind, v) == <<"Ready", "Some", kind, v>>

\* The record of what a consumer has seen: every result but Poll::Pending.
Emit(seen, r) == IF r = Pending THEN seen ELSE Append(seen, r)

VARIABLES
    reader,          \* self.reader: "Some" | "None"
    fut,             \* self.fut: "Some" | "None"
    cancel_on_drop,  \* self.cancel_on_drop
    futInner,        \* the stored JsFuture's result slot: <<>> or <<outcome>>
    script,          \* the reader's answers, in read order
    readsIssued,     \* calls of reader.as_raw().read()
    readsTaken,      \* read results taken out of self.fut by poll_next
    life,            \* "live" | "cancelling" | "dropped"
    readerCancels,   \* calls of reader.cancel() / reader.cancel_with_reason()
    cancelReason,    \* argument of the last such call
    cancelOp,        \* that call's promise: <<>> or <<result>>
    cancelRet,       \* what cancel()/cancel_with_reason() returned: <<>> or <<result>>
    rawCancels,      \* calls of reader.as_raw().cancel() made by drop
    rawCancelOp,     \* that promise: "none" | "pending" | "fulfilled" | "rejected"
    catchClosure,    \* the Closure handed to .catch(): "none" | "alive" | "dropped"
    unhandled,       \* exceptions thrown out of a promise reaction, nobody handling
    op,              \* the operation that made the last step
    result,          \* what the last poll_next returned
    out,             \* the non-Pending results of poll_next, in order
    polls,           \* poll_next calls so far
    terminatedRet    \* what the last is_terminated() returned: <<>> or <<bool>>

vars == <<reader, fut, cancel_on_drop, futInner, script, readsIssued, readsTaken,
          life, readerCancels, cancelReason, cancelOp, cancelRet, rawCancels,
          rawCancelOp, catchClosure, unhandled, op, result, out, polls,
          terminatedRet>>

adapterVars == <<reader, fut, cancel_on_drop, futInner>>
readVars == <<readsIssued, readsTaken>>
cancelVars == <<readerCancels, cancelReason, cancelOp, cancelRet>>
dropVars == <<rawCancels, rawCancelOp, catchClosure, unhandled>>
pollVars == <<result, out, polls>>

\* ------------------------------------------------------------ IntoStream
\* IntoStream::new
Init ==
    /\ reader = "Some"
    /\ fut = "None"
    /\ cancel_on_drop \in BOOLEAN
    /\ futInner = <<>>
    /\ script \in Scripts
    /\ readsIssued = 0
    /\ readsTaken = 0
    /\ life = "live"
    /\ readerCancels = 0
    /\ cancelReason = "none"
    /\ cancelOp = <<>>
    /\ cancelRet = <<>>
    /\ rawCancels = 0
    /\ rawCancelOp = "none"
    /\ catchClosure = "none"
    /\ unhandled = 0
    /\ op = "new"
    /\ result = <<"none">>
    /\ out = <<>>
    /\ polls = 0
    /\ terminatedRet = <<>>

\* As is_terminated, looking at the future only.
is_terminatedFutOnly(r, f) == f = "None"

\* FusedStream::is_terminated
is_terminated(r, f) == r = "None" /\ f = "None"

\* The call of is_terminated(&self) by the adapter's owner.
IsTerminatedCall ==
    /\ life = "live"
    /\ terminatedRet' = <<is_terminated(reader, fut)>>
    /\ op' = "is_terminated"
    /\ UNCHANGED <<adapterVars, script, readVars, life, cancelVars, dropVars,
                   pollVars>>

\* As StartsRead, without looking at the stored future.
StartsReadWhilePending(r, f) == r = "Some"

\* As StartsRead, without looking at the reader.
StartsReadWithoutReader(r, f) == f = "None"

\* poll_next, lines 72-79: a read is started when no future is stored and the
\* reader is present.
StartsRead(r, f) == f = "None" /\ r = "Some"

\* As ReaderDroppedOutput, suspending instead of ending.
ReaderDroppedOutputPending == Pending

\* poll_next, lines 80-83: what is returned when no future is stored and no
\* read is started.
ReaderDroppedOutput == End

\* As FutAfterRead, the future left in place.
FutAfterReadKept(f) == f

\* poll_next, line 89: self.fut once the polled future is ready.
FutAfterRead(f) == "None"

\* As ReaderAfterRead, the reader kept at the end of the stream.
ReaderAfterReadKeptOnDone(js, r) ==
    IF js.state = "fulfilled"
    THEN r
    ELSE "None"

\* As ReaderAfterRead, the reader dropped after every read.
ReaderAfterReadDropped(js, r) == "None"

\* As ReaderAfterRead, the reader kept after an error.
ReaderAfterReadKeptOnErr(js, r) ==
    IF js.state = "fulfilled"
    THEN IF js.done THEN "None" ELSE r
    ELSE r

\* poll_next, lines 92-108: the reader after a completed read.
ReaderAfterRead(js, r) ==
    IF js.state = "fulfilled"
    THEN IF js.done THEN "None" ELSE r
    ELSE "None"

\* As ReadOutput, without the is_done test.
ReadOutputNoDoneTest(js) ==
    IF js.state = "fulfilled"
    THEN Item("Ok", js.value)
    ELSE Item("Err", js.value)

\* poll_next, lines 92-108: the value returned for a completed read.
ReadOutput(js) ==
    IF js.state = "fulfilled"
    THEN IF js.done THEN End ELSE Item("Ok", js.value)
    ELSE Item("Err", js.value)

\* JsFuture::from(promise), line 77: the result slot of a new JsFuture is
\* empty; the promise's callbacks fill it in a later microtask.
NewJsFuture == <<>>

\* Stream::poll_next
poll_next ==
    /\ life = "live"
    /\ polls < MaxPolls
    /\ polls' = polls + 1
    /\ op' = "poll_next"
    /\ UNCHANGED <<cancel_on_drop, script, life, cancelVars, dropVars,
                   terminatedRet>>
    /\ LET started == StartsRead(reader, fut)
           \* the JsFuture polled on line 88: the one just made or the
           \* stored one
           inner == IF started THEN NewJsFuture ELSE futInner
       IN  IF fut = "None" /\ ~started
           THEN \* Reader was already dropped
                /\ result' = ReaderDroppedOutput
                /\ out' = Emit(out, ReaderDroppedOutput)
                /\ UNCHANGED <<reader, fut, futInner, readVars>>
           ELSE /\ readsIssued' = IF started THEN readsIssued + 1 ELSE readsIssued
                /\ IF inner = <<>>
                   THEN \* ready! returns Poll::Pending
                        /\ fut' = "Some"
                        /\ futInner' = inner
                        /\ result' = Pending
                        /\ out' = Emit(out, Pending)
                        /\ UNCHANGED <<reader, readsTaken>>
                   ELSE /\ fut' = FutAfterRead(fut)
                        /\ futInner' = <<>>
                        /\ readsTaken' = readsTaken + 1
                        /\ reader' = ReaderAfterRead(inner[1], reader)
                        /\ result' = ReadOutput(inner[1])
                        /\ out' = Emit(out, ReadOutput(inner[1]))

\* The promise of the outstanding read settles with the reader's next answer
\* and the JsFuture's callback stores it.
ReadSettle ==
    /\ life = "live"
    /\ fut = "Some"
    /\ futInner = <<>>
    /\ readsIssued \in 1..Len(script)
    /\ futInner' = <<script[readsIssued]>>
    /\ op' = "ReadSettle"
    /\ UNCHANGED <<reader, fut, cancel_on_drop, script, readVars, life,
                   cancelVars, dropVars, pollVars,
                   terminatedRet>>

\* As CancelCallsReader, whatever take() returned.
CancelCallsReaderAlways(r) == TRUE

\* cancel / cancel_with_reason, lines 46-48 and 55-57: the arm of the match on
\* self.reader.take() that calls the reader.
CancelCallsReader(r) == r = "Some"

\* As ReaderAfterTake, the reader left in place.
ReaderAfterTakeKept(r) == r

\* Option::take on self.reader, lines 46, 55 and 115: what it leaves behind.
ReaderAfterTake(r) == "None"

\* ReadableStreamDefaultReader::cancel / cancel_with_reason: the settled
\* promise of the reader's cancel as a Result<(), JsValue>.
ReaderCancelResult(p) ==
    IF p.state = "fulfilled" THEN <<"Ok">> ELSE <<"Err", p.value>>

\* As CancelReturn, the reader's error swallowed.
CancelReturnOk(res) == <<"Ok">>

\* cancel / cancel_with_reason, lines 47 and 56: the awaited result is the
\* function's result.
CancelReturn(res) == res

\* As DropCancels, without looking for a reader.
DropCancelsAnyReader(cod, r) == cod

\* As DropCancels, without the cancel_on_drop test.
DropCancelsAnyFlag(cod, r) == r = "Some"

\* Drop::drop, lines 114-115: the condition under which drop cancels.
DropCancels(cod, r) == cod /\ r = "Some"

\* Drop::drop, run on the adapter whose reader field holds r.  On line 116 the
\* Closure made by Closure::once is a temporary: .catch() registers it with
\* the promise and Rust drops it when the statement ends.
DropBody(r) ==
    /\ life' = "dropped"
    /\ IF DropCancels(cancel_on_drop, r)
       THEN /\ reader' = ReaderAfterTake(r)
            /\ rawCancels' = rawCancels + 1
            /\ rawCancelOp' = "pending"
            /\ catchClosure' = "dropped"
       ELSE /\ reader' = r
            /\ UNCHANGED <<rawCancels, rawCancelOp, catchClosure>>

\* cancel(self) and cancel_with_reason(self, reason), up to the await: with no
\* reader the function returns Ok(()) at once and self is dropped.
CancelStart(name, reason) ==
    /\ life = "live"
    /\ op' = name
    /\ UNCHANGED <<fut, cancel_on_drop, futInner, script, readVars, unhandled,
                   pollVars,
                   terminatedRet>>
    /\ IF CancelCallsReader(reader)
       THEN /\ reader' = ReaderAfterTake(reader)
            /\ readerCancels' = readerCancels + 1
            /\ cancelReason' = reason
            /\ cancelOp' = <<>>
            /\ life' = "cancelling"
            /\ UNCHANGED <<cancelRet, rawCancels, rawCancelOp, catchClosure>>
       ELSE /\ cancelRet' = <<"Ok">>
            /\ UNCHANGED <<readerCancels, cancelReason, cancelOp>>
            /\ DropBody(ReaderAfterTake(reader))

cancel == CancelStart("cancel", "undefined")

cancel_with_reason == \E reason \in Reasons : CancelStart("cancel_with_reason", reason)

\* The promise of the reader's cancel settles.
ReaderCancelSettle ==
    /\ life = "cancelling"
    /\ cancelOp = <<>>
    /\ \E p \in {[state |-> "fulfilled", value |-> "undefined"]}
                \cup {[state |-> "rejected", value |-> e] : e \in Errors} :
         cancelOp' = <<ReaderCancelResult(p)>>
    /\ op' = "ReaderCancelSettle"
    /\ UNCHANGED <<adapterVars, script, readVars, life, readerCancels,
                   cancelReason, cancelRet, dropVars, pollVars,
                   terminatedRet>>

\* cancel / cancel_with_reason after the await: return the result; self goes
\* out of scope and is dropped.
CancelFinish ==
    /\ life = "cancelling"
    /\ cancelOp # <<>>
    /\ cancelRet' = CancelReturn(cancelOp[1])
    /\ DropBody(reader)
    /\ op' = "cancel.await"
    /\ UNCHANGED <<fut, cancel_on_drop, futInner, script, readVars,
                   readerCancels, cancelReason, cancelOp, unhandled, pollVars,
                   terminatedRet>>

\* Drop::drop: the owner discards the adapter, or discards the future of an
\* unfinished cancel that owns it.
drop ==
    /\ life \in {"live", "cancelling"}
    /\ DropBody(reader)
    /\ op' = "drop"
    /\ UNCHANGED <<fut, cancel_on_drop, futInner, script, readVars, cancelVars,
                   unhandled, pollVars,
                   terminatedRet>>

\* The promise of the cancel made by drop settles.  A rejection runs the
\* handler given to .catch(); calling a Closure that Rust has dropped throws,
\* which rejects the promise .catch() returned, and drop discarded that one.
RawCancelSettle ==
    /\ rawCancelOp = "pending"
    /\ \E s \in {"fulfilled", "rejected"} :
         /\ rawCancelOp' = s
         /\ unhandled' = IF s = "rejected" /\ catchClosure # "alive"
                         THEN unhandled + 1
                         ELSE unhandled
    /\ op' = "RawCancelSettle"
    /\ UNCHANGED <<adapterVars, script, readVars, life, cancelVars, rawCancels,
                   catchClosure, pollVars,
                   terminatedRet>>

Next ==
    \/ poll_next
    \/ ReadSettle
    \/ cancel
    \/ cancel_with_reason
    \/ ReaderCancelSettle
    \/ CancelFinish
    \/ drop
    \/ RawCancelSettle
    \/ IsTerminatedCall

Spec == Init /\ [][Next]_vars

\* A consumer that only polls, and polls when there is something to do: at
\* the start, after every item, and after the waker registered on line 88 was
\* called, that is once the stored future's promise has settled.
PollWhenWoken ==
    /\ fut = "Some" => futInner # <<>>
    /\ poll_next

LiveNext ==
    \/ PollWhenWoken
    \/ ReadSettle

\* Every issued read settles and the consumer keeps polling.
LiveSpec ==
    /\ Init
    /\ [][LiveNext]_vars
    /\ WF_vars(PollWhenWoken)
    /\ WF_vars(ReadSettle)

\* ---------------------------------------------------------------- claims
\* The reader's last answer and the number of values before it.
LastAnswer == script[Len(script)]
NumValues == Len(script) - 1

\* C1: when the reader answers n values and then done, what the consumer has
\* seen is at all times a prefix of Ok(v1), ..., Ok(vn), End, End, ...: the
\* values in the reader's order, End only after all n of them; and from the
\* first End on is_terminated() is true.
C1_ValuesThenEnd ==
    LastAnswer = Done =>
        /\ \A i \in 1..Len(out) :
             out[i] = IF i <= NumValues THEN Item("Ok", script[i].value) ELSE End
        /\ Len(out) > NumValues => is_terminated(reader, fut)

\* C1 witness: reader [A, B, done]; the consumer saw Ok(A), Ok(B), End, End.
C1_Witness ==
    /\ script = <<Chunk("A"), Chunk("B"), Done>>
    /\ out = <<Item("Ok", "A"), Item("Ok", "B"), End, End>>
    /\ is_terminated(reader, fut)

\* C2: when the k-th read fails, what the consumer has seen is at all times a
\* prefix of Ok(v1), ..., Ok(v(k-1)), Err(e), End, End, ...; once the error
\* item is out the adapter is terminated, no further read is issued and every
\* later poll returns End (never Pending, a value or a second error).
C2_ValuesThenOneError ==
    LastAnswer.state = "rejected" =>
        /\ \A i \in 1..Len(out) :
             out[i] = IF i <= NumValues THEN Item("Ok", script[i].value)
                      ELSE IF i = NumValues + 1 THEN Item("Err", LastAnswer.value)
                      ELSE End
        /\ Len(out) > NumValues =>
             /\ is_terminated(reader, fut)
             /\ readsIssued = Len(script)
             /\ result = out[Len(out)]

\* C2 witness: reader [A, error E]; the consumer saw Ok(A), Err(E), End, End.
C2_Witness ==
    /\ script = <<Chunk("A"), Rejected("E")>>
    /\ out = <<Item("Ok", "A"), Item("Err", "E"), End, End>>

\* Reads issued whose result poll_next has not yet taken.
Outstanding == readsIssued - readsTaken

\* C3: at most one read is outstanding, and one is outstanding exactly while
\* a future is stored: a new read is issued only after the previous one was
\* resolved and cleared.
C3_AtMostOneOutstandingRead ==
    /\ [](Outstanding \in {0, 1} /\ ((Outstanding = 1) <=> (fut = "Some")))
    /\ [][readsIssued' # readsIssued =>
            fut = "None" /\ readsIssued' = readsIssued + 1]_vars

\* C3 witness: a second read is outstanding after the first was consumed.
C3_Witness ==
    /\ readsIssued = 2
    /\ readsTaken = 1
    /\ fut = "Some"
    /\ futInner # <<>>

\* C4: no step leaves a state in which is_terminated() is true.
C4_TerminationAbsorbing ==
    [][is_terminated(reader, fut) => is_terminated(reader', fut')]_vars

\* C4 witness: terminated, and polled twice more since.
C4_Witness ==
    /\ is_terminated(reader, fut)
    /\ life = "live"
    /\ op = "poll_next"
    /\ Len(out) >= 3
    /\ out[Len(out)] = End
    /\ out[Len(out) - 1] = End
    /\ out[Len(out) - 2] = End

\* C5: a poll_next made in the Terminated state returns End and changes no
\* field, issues no read and no cancel.
C5_PollAfterTerminated ==
    [][(polls' # polls /\ is_terminated(reader, fut)) =>
          /\ result' = End
          /\ UNCHANGED <<reader, fut, cancel_on_drop, futInner>>
          /\ UNCHANGED <<readsIssued, readsTaken, readerCancels, rawCancels>>]_vars

\* C5 witness: a poll made in Terminated, reached through an error.
C5_Witness ==
    /\ op = "poll_next"
    /\ result = End
    /\ LastAnswer.state = "rejected"
    /\ Len(out) >= NumValues + 2
    /\ is_terminated(reader, fut)

\* The states of section 4.1.
Idle(r, f) == r = "Some" /\ f = "None"
Reading(f) == f = "Some"
Terminated(r, f) == r = "None" /\ f = "None"

\* The five transitions of section 4.1, each with what poll_next reports.
IdleToReading ==
    /\ Idle(reader, fut) /\ Reading(fut') /\ reader' = "Some"
    /\ futInner' = <<>>
    /\ readsIssued' = readsIssued + 1 /\ readsTaken' = readsTaken
    /\ result' = Pending /\ out' = out
IdleToTerminated ==
    /\ Terminated(reader, fut) /\ Terminated(reader', fut')
    /\ UNCHANGED readVars
    /\ result' = End /\ out' = Append(out, End)
ReadingToReading ==
    /\ Reading(fut) /\ futInner = <<>>
    /\ UNCHANGED <<reader, fut, futInner, readVars>>
    /\ result' = Pending /\ out' = out
ReadingToIdle ==
    /\ Reading(fut) /\ futInner # <<>> /\ Idle(reader', fut')
    /\ futInner[1].state = "fulfilled" /\ ~futInner[1].done
    /\ readsIssued' = readsIssued /\ readsTaken' = readsTaken + 1
    /\ result' = Item("Ok", futInner[1].value) /\ out' = Append(out, result')
ReadingToTerminated ==
    /\ Reading(fut) /\ futInner # <<>> /\ Terminated(reader', fut')
    /\ futInner[1].state = "rejected" \/ futInner[1].done
    /\ readsIssued' = readsIssued /\ readsTaken' = readsTaken + 1
    /\ result' = IF futInner[1].state = "rejected"
                 THEN Item("Err", futInner[1].value)
                 ELSE End
    /\ out' = Append(out, result')

Count(b) == IF b THEN 1 ELSE 0

\* C6: every poll_next makes exactly one of the five listed transitions; a
\* poll made in Idle with a reader only issues the read, stores the future
\* and suspends: it reports nothing, the outcome is reported by a later poll.
C6_OneTransitionPerPoll ==
    [][polls' # polls =>
          /\ Count(IdleToReading) + Count(IdleToTerminated)
               + Count(ReadingToReading) + Count(ReadingToIdle)
               + Count(ReadingToTerminated) = 1
          /\ Idle(reader, fut) => IdleToReading]_vars

\* C6 witness: the poll after Ok(A) was reported has issued the second read
\* and suspended; nothing more has been reported.
C6_Witness ==
    /\ op = "poll_next"
    /\ result = Pending
    /\ readsIssued = 2
    /\ readsTaken = 1
    /\ fut = "Some"
    /\ futInner = <<>>
    /\ out = <<Item("Ok", "A")>>

\* A step that calls cancel() or cancel_with_reason().
CancelCalled == life = "live" /\ op' \in {"cancel", "cancel_with_reason"}

\* C7: cancel() and cancel_with_reason() on a terminated adapter return
\* Ok(()) at once and call nothing on the reader: no cancel of either kind
\* and no read.
C7_CancelAfterTerminated ==
    [][(CancelCalled /\ is_terminated(reader, fut)) =>
          /\ cancelRet' = <<"Ok">>
          /\ life' = "dropped"
          /\ UNCHANGED <<readerCancels, rawCancels, readsIssued>>
          /\ UNCHANGED <<cancelOp, rawCancelOp>>]_vars

\* C7 witness: cancel_with_reason returned Ok(()) on an adapter that ended
\* with an error and has cancel_on_drop set; the reader saw no cancel.
C7_Witness ==
    /\ op = "cancel_with_reason"
    /\ cancelRet = <<"Ok">>
    /\ life = "dropped"
    /\ cancel_on_drop
    /\ LastAnswer.state = "rejected"
    /\ readerCancels = 0
    /\ rawCancels = 0

\* C8: cancel() with a reader present (Idle or Reading) takes the reader,
\* calls the reader's cancel once, and returns that call's result: Ok when
\* it succeeds and the reader's error when it fails.
C8_CancelReturnsReaderOutcome ==
    /\ [](readerCancels <= 1)
    /\ [][(CancelCalled /\ reader = "Some") =>
             /\ reader' = "None"
             /\ readerCancels' = readerCancels + 1
             /\ life' = "cancelling"
             /\ cancelRet' = <<>>]_vars
    /\ [][op' = "cancel.await" =>
             /\ readerCancels' = 1
             /\ cancelOp # <<>>
             /\ cancelRet' = cancelOp[1]
             /\ rawCancels' = rawCancels]_vars

\* C8 witness: cancel() called in Reading after Ok(A) was seen; the reader's
\* cancel failed with E and cancel() returned Err(E).
C8_Witness ==
    /\ op = "cancel.await"
    /\ cancelReason = "undefined"
    /\ cancelRet = <<"Err", "E">>
    /\ out = <<Item("Ok", "A")>>
    /\ fut = "Some"
    /\ readerCancels = 1

\* C9: dropping an adapter with cancel_on_drop = true and a reader present
\* issues exactly one unawaited cancel, and neither a success nor a failure
\* of that cancel causes a fault or is reported to anyone.
C9_DropCancelIsSilent ==
    /\ [][(op' = "drop" /\ cancel_on_drop /\ reader = "Some") =>
             rawCancels' = rawCancels + 1 /\ life' = "dropped"]_vars
    /\ [](rawCancels <= 1)
    /\ [](rawCancels = 1 => cancelRet = <<>>)
    /\ [](unhandled = 0)

\* C10: an adapter made with cancel_on_drop = false never issues a cancel at
\* drop, in whatever state it is dropped, and the flag never changes.
C10_NoCancelWithoutFlag ==
    /\ [][cancel_on_drop' = cancel_on_drop]_vars
    /\ [](~cancel_on_drop => rawCancels = 0 /\ rawCancelOp = "none")

\* C10 witness: an adapter with cancel_on_drop = false dropped in Reading,
\* its read outstanding; no cancel was made.
C10_Witness ==
    /\ op = "drop"
    /\ life = "dropped"
    /\ ~cancel_on_drop
    /\ reader = "Some"
    /\ fut = "Some"
    /\ rawCancels = 0
    /\ readerCancels = 0

\* C11: is_terminated() changes nothing and returns true exactly when the
\* reader and the future are both absent; called right after construction it
\* returns false, whatever cancel_on_drop is.
C11_IsTerminatedPure ==
    /\ [][op' = "is_terminated" =>
             /\ terminatedRet' = <<reader = "None" /\ fut = "None">>
             /\ UNCHANGED <<adapterVars, script, readVars, life, cancelVars,
                            dropVars, pollVars>>]_vars
    /\ [][(op = "new" /\ op' = "is_terminated") =>
             terminatedRet' = <<FALSE>>]_vars
    /\ [](op = "new" => ~(reader = "None" /\ fut = "None"))

\* C11 witness: is_terminated() called first thing on a new adapter with
\* cancel_on_drop = false returned false.
C11_Witness ==
    /\ op = "is_terminated"
    /\ terminatedRet = <<FALSE>>
    /\ ~cancel_on_drop
    /\ polls = 0
    /\ reader = "Some"
    /\ fut = "None"

\* The reader's last answer (done or an error) has settled.
TerminalResolved ==
    /\ readsIssued >= Len(script)
    /\ readsTaken >= Len(script) \/ futInner # <<>>

\* C12: a read is issued only from a state with the reader present, and once
\* a read has resolved with done or with an error the number of reads issued
\* never grows again.
C12_NoReadWithoutReader ==
    /\ [][readsIssued' # readsIssued => reader = "Some"]_vars
    /\ [][TerminalResolved => readsIssued' = readsIssued]_vars
    /\ [](readsIssued <= Len(script))

\* C12 witness: reader [A, done]; both reads were made and done was
\* observed, and three polls later still only two reads have been issued.
C12_Witness ==
    /\ script = <<Chunk("A"), Done>>
    /\ out = <<Item("Ok", "A"), End, End, End, End>>
    /\ readsIssued = 2
    /\ reader = "None"

\* A poll_next step that observes the reader's last answer.
ObservesTerminal ==
    /\ polls' # polls
    /\ fut = "Some"
    /\ futInner # <<>>
    /\ futInner[1] \in Terminals

C14_PendingClearedBeforeReport ==
    /\ [][(polls' # polls /\ result' # Pending) => fut' = "None"]_vars
    /\ [](fut = "Some" => readsIssued = readsTaken + 1)

\* C14 witness: poll_next has just returned the error item and no future is
\* stored.
C14_Witness ==
    /\ op = "poll_next"
    /\ result = Item("Err", "E")
    /\ fut = "None"
    /\ readsIssued = readsTaken

\* C15: poll_next in Reading with the read unresolved returns Pending and
\* leaves the adapter as it was: same future, reader present, no further
\* read, nothing reported.
C15_PollWhileUnresolved ==
    [][(polls' # polls /\ fut = "Some" /\ futInner = <<>>) =>
          /\ result' = Pending
          /\ reader' = "Some"
          /\ UNCHANGED <<adapterVars, readVars, out>>]_vars

\* C15 witness: three polls made, the first issued the read, the other two
\* found it unresolved: still one read, still pending.
C15_Witness ==
    /\ op = "poll_next"
    /\ polls = 3
    /\ readsIssued = 1
    /\ readsTaken = 0
    /\ fut = "Some"
    /\ futInner = <<>>
    /\ result = Pending
    /\ reader = "Some"

\* Results a consumer has seen that were caused by a resolved read: the
\* value and error items, and the first End when the reader ended with done.
ReadResults ==
    Cardinality({i \in 1..Len(out) : out[i] # End})
      + Count(LastAnswer = Done /\ \E i \in 1..Len(out) : out[i] = End)

\* C16: construction issues no read, reads are issued only by poll_next, and
\* at all times the reads issued are the results reported for resolved reads
\* plus one if a future is stored: one result per read, none lost, none
\* reported twice.
C16_OneResultPerRead ==
    /\ [](op = "new" => readsIssued = 0 /\ fut = "None")
    /\ [][readsIssued' # readsIssued => polls' # polls]_vars
    /\ [](readsIssued = ReadResults + Count(fut = "Some"))
    /\ [](readsTaken = ReadResults)

\* C16 witness: reader [A, B, done] read to the end and polled once more:
\* three reads, three results caused by reads, a fourth result (End) that no
\* read caused.
C16_Witness ==
    /\ script = <<Chunk("A"), Chunk("B"), Done>>
    /\ readsIssued = 3
    /\ out = <<Item("Ok", "A"), Item("Ok", "B"), End, End>>
    /\ fut = "None"

\* C17: over the life of one adapter the reader gets at most one cancel,
\* counting the awaited and the unawaited kind; once cancel or
\* cancel_with_reason has taken the reader, the drop of the adapter that
\* follows makes no unawaited cancel, cancel_on_drop set or not.
C17_AtMostOneCancel ==
    /\ [](readerCancels + rawCancels <= 1)
    /\ [](readerCancels = 1 => rawCancels = 0 /\ rawCancelOp = "none")
    /\ [][(life = "cancelling" /\ life' = "dropped") =>
             UNCHANGED <<readerCancels, rawCancels, rawCancelOp>>]_vars

\* C17 witness: an adapter with cancel_on_drop = true, cancelled explicitly
\* while present; the cancel returned and the adapter was dropped with one
\* awaited cancel and no unawaited one.
C17_Witness ==
    /\ op = "cancel.await"
    /\ life = "dropped"
    /\ cancel_on_drop
    /\ readerCancels = 1
    /\ rawCancels = 0
    /\ cancelRet = <<"Ok">>

\* C18: dropping an adapter that is Terminated after a done or error read
\* makes no cancel, cancel_on_drop set or not: an adapter that has observed
\* the reader's last answer never cancels.
C18_NoCancelAfterEndOrError ==
    /\ [][(op' = "drop" /\ reader = "None" /\ fut = "None") =>
             /\ life' = "dropped"
             /\ UNCHANGED <<readerCancels, rawCancels, rawCancelOp>>]_vars
    /\ [](readsTaken = Len(script) =>
             readerCancels = 0 /\ rawCancels = 0 /\ rawCancelOp = "none")

\* C18 witness: an adapter with cancel_on_drop = true that ended with an
\* error was dropped; no cancel was made.
C18_Witness ==
    /\ op = "drop"
    /\ life = "dropped"
    /\ cancel_on_drop
    /\ out = <<Item("Ok", "A"), Item("Err", "E")>>
    /\ rawCancels = 0
    /\ rawCancelOp = "none"

\* C19: on a live adapter a stored future implies a present reader, so the
\* adapter is in exactly one of Idle, Reading (reader present) or Terminated,
\* and is_terminated() is false while a read is outstanding.
C19_PendingImpliesReader ==
    life = "live" =>
        /\ fut = "Some" => reader = "Some"
        /\ Count(Idle(reader, fut)) + Count(Reading(fut) /\ reader = "Some")
             + Count(Terminated(reader, fut)) = 1
        /\ Outstanding > 0 => ~is_terminated(reader, fut)

\* C19 witness: a live adapter in Reading whose read has resolved with done
\* and has not been polled since: the reader is still present.
C19_Witness ==
    /\ life = "live"
    /\ fut = "Some"
    /\ futInner = <<Done>>
    /\ reader = "Some"
    /\ out = <<Item("Ok", "B")>>

\* C20: when every read settles, the reader's answers end with done or an
\* error and the consumer keeps polling, the adapter reaches Terminated and
\* stays there; and the first poll_next after a read has settled reports
\* that read's result.
C20_EventuallyTerminated ==
    /\ <>[](reader = "None" /\ fut = "None")
    /\ [][(polls' # polls /\ fut = "Some" /\ futInner # <<>>) =>
             /\ readsTaken' = readsTaken + 1
             /\ result' = IF futInner[1].state = "rejected"
                          THEN Item("Err", futInner[1].value)
                          ELSE IF futInner[1].done THEN End
                          ELSE Item("Ok", futInner[1].value)
             /\ out' = Append(out, result')]_vars

\* C20 witness: reader [A, B, error E] polled to the end in six polls.
C20_Witness ==
    /\ script = <<Chunk("A"), Chunk("B"), Rejected("E")>>
    /\ polls = 6
    /\ out = <<Item("Ok", "A"), Item("Ok", "B"), Item("Err", "E")>>
    /\ is_terminated(reader, fut)
====
